---------------------------- MODULE Spec2Model ----------------------------
(* A model of src/AnagramExplorer.py: one AnagramExplorer object and its   *)
(* public operations.  A character is its code point, a word (a Python     *)
(* str) is a sequence of characters, a list is a sequence, and a dict is   *)
(* the sequence of its items in insertion order.                           *)
EXTENDS Integers, Sequences, FiniteSets

VARIABLES all_words, corpus, anagram_lookup, built, op, args, outcome

vars == <<all_words, corpus, anagram_lookup, built, op, args, outcome>>

(* ------------------------------ bounds -------------------------------- *)

MaxWordLen == 2
MaxCorpusLen == 2
MaxLetters == 1

\* "A", "a": the characters of the corpus entries
Alphabet == {65, 97}

\* "A", "a", "b": the characters of the inputs of is_valid_anagram_pair
PairAlphabet == Alphabet \cup {98}

SeqsUpTo(S, n) == UNION {[1..k -> S] : k \in 0..n}

Words == SeqsUpTo(Alphabet, MaxWordLen)
Corpora == SeqsUpTo(Words, MaxCorpusLen)
LetterLists == SeqsUpTo(Alphabet, MaxLetters)
PairWords == SeqsUpTo(PairAlphabet, MaxWordLen)
PairCorpora == SeqsUpTo(PairWords, MaxCorpusLen)
PairLetterLists == SeqsUpTo(PairAlphabet, MaxLetters)
Pairs == PairWords \X PairWords

(* ----------------------- Python built-ins used ------------------------ *)

Range(s) == {s[i] : i \in 1..Len(s)}

\* str.lower() on one character, and on a str
LowerChar(c) == IF c \in 65..90 THEN c + 32 ELSE c
Lower(w) == [i \in 1..Len(w) |-> LowerChar(w[i])]

\* str <= str: lexicographic on code points, a proper prefix comes first
RECURSIVE StrLE(_, _)
StrLE(a, b) ==
    IF a = <<>> THEN TRUE
    ELSE IF b = <<>> THEN FALSE
    ELSE IF Head(a) # Head(b) THEN Head(a) < Head(b)
    ELSE StrLE(Tail(a), Tail(b))

\* list[str] <= list[str]: lexicographic on str comparison
RECURSIVE ListLE(_, _)
ListLE(a, b) ==
    IF a = <<>> THEN TRUE
    ELSE IF b = <<>> THEN FALSE
    ELSE IF Head(a) # Head(b) THEN StrLE(Head(a), Head(b))
    ELSE ListLE(Tail(a), Tail(b))

\* the <= of the element type: "int" (code points), "str", "list" (of str)
LE(kind, a, b) ==
    IF kind = "int" THEN a <= b
    ELSE IF kind = "str" THEN StrLE(a, b)
    ELSE ListLE(a, b)

\* sorted(xs): a new list, stable, ascending
RECURSIVE InsertSorted(_, _, _)
InsertSorted(x, s, kind) ==
    IF s = <<>> THEN <<x>>
    ELSE IF LE(kind, Head(s), x) THEN <<Head(s)>> \o InsertSorted(x, Tail(s), kind)
    ELSE <<x>> \o s

RECURSIVE Sorted(_, _)
Sorted(xs, kind) ==
    IF xs = <<>> THEN <<>>
    ELSE InsertSorted(xs[Len(xs)], Sorted(SubSeq(xs, 1, Len(xs) - 1), kind), kind)

\* the argument list once sorted(xs) has returned: sorted leaves it alone
SortInPlace(xs) == Sorted(xs, "str")
SortedArg(xs) == xs

(* --------------------------- get_lookup_dict -------------------------- *)

\* key = tuple(sorted(list(word)))
KeyUnsorted(word) == word
CanonicalKey(word) == Sorted(word, "int")

\* dict.get(key, []) on the item sequence
LookupGet(lookup, key) ==
    IF \E i \in 1..Len(lookup) : lookup[i].key = key
    THEN (CHOOSE i \in 1..Len(lookup) : lookup[i].key = key)
    ELSE 0

\* lookup[key] = lookup.get(key, []) + [word]
LookupPutReplace(lookup, key, word) ==
    LET i == LookupGet(lookup, key) IN
    IF i = 0 THEN Append(lookup, [key |-> key, words |-> <<word>>])
    ELSE [lookup EXCEPT ![i].words = <<word>>]
LookupPut(lookup, key, word) ==
    LET i == LookupGet(lookup, key) IN
    IF i = 0 THEN Append(lookup, [key |-> key, words |-> <<word>>])
    ELSE [lookup EXCEPT ![i].words = Append(@, word)]

\* for word in <ws>: ... (the loop of get_lookup_dict)
RECURSIVE LookupLoop(_, _)
LookupLoop(ws, lookup) ==
    IF ws = <<>> THEN lookup
    ELSE LookupLoop(Tail(ws), LookupPut(lookup, CanonicalKey(Head(ws)), Head(ws)))

get_lookup_dict(c) == LookupLoop(Sorted(c, "str"), <<>>)

Values(lookup) == [i \in 1..Len(lookup) |-> lookup[i].words]

(* ------------------------ is_valid_anagram_pair ----------------------- *)

\* what a call produces: a returned value, or a raised exception
Return(v) == [kind |-> "return", value |-> v]
Raise(e) == [kind |-> e, value |-> <<>>]

\* d[ch] = 1 + d.get(ch, 0), the dict being a function on its keys
DictIncr(d, ch) ==
    [k \in (DOMAIN d) \cup {ch} |->
        IF k = ch THEN 1 + (IF ch \in DOMAIN d THEN d[ch] ELSE 0) ELSE d[k]]

\* the dict built by the first n rounds of the loop, reading w[1..n]
RECURSIVE CountChars(_, _)
CountChars(w, n) ==
    IF n = 0 THEN <<>> ELSE DictIncr(CountChars(w, n - 1), w[n])

\* for i in letters: if i not in dict1.keys(): return False
LettersCovered(letters, dict1) ==
    \A i \in 1..Len(letters) : letters[i] \in DOMAIN dict1

\* the loop indexes word2 with the indices of word1
LoopLen(word1, word2) == Len(word1)

is_valid_anagram_pair(c, pair, letters) ==
    LET word1 == Lower(pair[1])
        word2 == Lower(pair[2])
    IN  IF word1 \notin Range(c) \/ word2 \notin Range(c) THEN Return(FALSE)
        ELSE IF LoopLen(word1, word2) > Len(word2) THEN Raise("IndexError")
        ELSE LET dict1 == CountChars(word1, LoopLen(word1, word2))
                 dict2 == CountChars(word2, LoopLen(word1, word2))
             IN  IF ~LettersCovered(letters, dict1) THEN Return(FALSE)
                 ELSE Return(dict1 = dict2)

(* ------------------ get_all_anagrams, get_most_anagrams --------------- *)

\* the body of get_all_anagrams, given the mapping it iterates over
get_all_anagrams(lookup, letters) ==
    UNION {Range(lookup[i].words) : i \in {j \in 1..Len(lookup) : Len(lookup[j].words) > 1}}

\* the loop of get_most_anagrams: st = [max_value, most_anagramable]
RECURSIVE MostLoop(_, _)
MostLoop(vals, st) ==
    IF vals = <<>> THEN st
    ELSE LET v == Head(vals) IN
         MostLoop(Tail(vals),
            IF Len(v) = st.max_value
            THEN [st EXCEPT !.most_anagramable = Append(@, v)]
            ELSE IF Len(v) > st.max_value
            THEN [max_value |-> Len(v), most_anagramable |-> <<v>>]
            ELSE st)

get_most_anagrams(lookup, letters) ==
    LET st == MostLoop(Values(lookup), [max_value |-> 2, most_anagramable |-> <<>>])
        srt == Sorted(st.most_anagramable, "list")
    IN  [i \in 1..Len(srt) |-> srt[i][1]]

\* def get_lookup_dict(self), and the call self.get_lookup_dict(self.corpus)
GetLookupDictParams == <<"self">>
QueryCallArgsNoCorpus == <<"self">>
QueryCallArgs == <<"self", "self.corpus">>

\* a call binds iff it passes as many positional arguments as there are parameters
Binds(params, callargs) == Len(params) = Len(callargs)

(* ------------------------------ the object ---------------------------- *)

NoArgs == <<>>

\* AnagramExplorer(all_words): after __init__ has returned
Init ==
    /\ all_words \in Corpora
    /\ corpus = SortedArg(all_words)
    /\ anagram_lookup = get_lookup_dict(all_words)
    /\ built = 1
    /\ op = "__init__"
    /\ args = NoArgs
    /\ outcome = Return("None")

\* the same object, with the arguments of one coming call chosen
InitPair ==
    /\ all_words \in PairCorpora
    /\ corpus = SortedArg(all_words)
    /\ anagram_lookup = get_lookup_dict(all_words)
    /\ built = 1
    /\ op = "__init__"
    /\ args \in [pair : Pairs, letters : PairLetterLists]
    /\ outcome = Return("None")

\* str.upper() on one character (to spell an input in capitals)
UpperChar(c) == IF c \in 97..122 THEN c - 32 ELSE c

\* pairs of corpus entries, of their upper-case spellings and of the empty word
NearPairs ==
    LET ws == Range(corpus)
              \cup {[i \in 1..Len(w) |-> UpperChar(w[i])] : w \in Range(corpus)}
              \cup {<<>>}
    IN  ws \X ws

\* is_valid_anagram_pair(pair, letters)
ValidatePair ==
    \E pair \in NearPairs, letters \in LetterLists :
        /\ op' = "is_valid_anagram_pair"
        /\ outcome' = is_valid_anagram_pair(corpus, pair, letters)
        /\ built' = 0
        /\ UNCHANGED <<all_words, corpus, anagram_lookup, args>>

\* is_valid_anagram_pair(args.pair, args.letters)
ValidatePairRecorded ==
    /\ op = "__init__"
    /\ op' = "is_valid_anagram_pair"
    /\ outcome' = is_valid_anagram_pair(corpus, args.pair, args.letters)
    /\ built' = 0
    /\ UNCHANGED <<all_words, corpus, anagram_lookup, args>>

\* a public call get_lookup_dict()
GetLookupDictCall ==
    /\ op' = "get_lookup_dict"
    /\ outcome' = Return(get_lookup_dict(corpus))
    /\ corpus' = SortedArg(corpus)
    /\ built' = 1
    /\ UNCHANGED <<all_words, anagram_lookup, args>>

\* get_all_anagrams(letters)
GetAllAnagramsCall ==
    \E letters \in LetterLists :
        /\ op' = "get_all_anagrams"
        /\ IF Binds(GetLookupDictParams, QueryCallArgs)
           THEN /\ built' = 1
                /\ corpus' = SortedArg(corpus)
                /\ outcome' = Return(get_all_anagrams(get_lookup_dict(corpus), letters))
           ELSE /\ outcome' = Raise("TypeError")
                /\ built' = 0
                /\ UNCHANGED corpus
        /\ UNCHANGED <<all_words, anagram_lookup, args>>

\* get_most_anagrams(letters)
GetMostAnagramsCall ==
    \E letters \in LetterLists :
        /\ op' = "get_most_anagrams"
        /\ IF Binds(GetLookupDictParams, QueryCallArgs)
           THEN /\ built' = 1
                /\ corpus' = SortedArg(corpus)
                /\ outcome' = Return(get_most_anagrams(get_lookup_dict(corpus), letters))
           ELSE /\ outcome' = Raise("TypeError")
                /\ built' = 0
                /\ UNCHANGED corpus
        /\ UNCHANGED <<all_words, anagram_lookup, args>>

Next ==
    \/ ValidatePair
    \/ GetLookupDictCall
    \/ GetAllAnagramsCall
    \/ GetMostAnagramsCall

Spec == Init /\ [][Next]_vars

\* is_valid_anagram_pair as a function of its arguments
NextPair == ValidatePairRecorded

SpecPair == InitPair /\ [][NextPair]_vars

(* ------------------- notions the properties are stated in ------------- *)

\* the character-frequency multiset of a word
Multiset(w) == [ch \in Range(w) |-> Cardinality({i \in 1..Len(w) : w[i] = ch})]

\* the characters of w in ascending order, said without any sorting procedure
SortedChars(w) ==
    CHOOSE s \in [1..Len(w) -> Range(w)] :
        /\ Multiset(s) = Multiset(w)
        /\ \A i \in 1..(Len(w) - 1) : s[i] <= s[i + 1]

\* how many entries of the list c equal w
Occurrences(c, w) == Cardinality({i \in 1..Len(c) : c[i] = w})

\* the size of the anagram group of w in c: the entries with the same sorted characters
GroupSize(c, w) == Cardinality({i \in 1..Len(c) : SortedChars(c[i]) = SortedChars(w)})

\* the words of all the groups of the mapping m
GroupWords(m) == UNION {Range(m[i].words) : i \in 1..Len(m)}

\* how many times w is stored in the mapping m, over all its groups
Stored(m, w) ==
    Cardinality(UNION {{<<i, k>> : k \in {n \in 1..Len(m[i].words) : m[i].words[n] = w}} :
                        i \in 1..Len(m)})

\* a and b are stored in one and the same group of m
SameGroup(m, a, b) ==
    \E i \in 1..Len(m) : a \in Range(m[i].words) /\ b \in Range(m[i].words)

Returned(name) == op = name /\ outcome.kind = "return"

(* ------------------------------- C1 ----------------------------------- *)

C1_Expected(c, pair, letters) ==
    LET a == Lower(pair[1])
        b == Lower(pair[2])
    IN  /\ a \in Range(c) /\ b \in Range(c)
        /\ \A i \in 1..Len(letters) : letters[i] \in Range(a)
        /\ Multiset(a) = Multiset(b)

\* C1: is_valid_anagram_pair returns True if and only if both lower-cased
\* words are corpus entries, every element of letters occurs in the first
\* word, and the two words have equal character multisets; otherwise False.
C1_PairContract ==
    op = "is_valid_anagram_pair" =>
        /\ outcome.kind = "return"
        /\ outcome.value = C1_Expected(corpus, args.pair, args.letters)

(* ------------------------------- C2 ----------------------------------- *)

\* C2: get_all_anagrams returns exactly the set of corpus words whose
\* anagram group has size >= 2, whatever the letters argument.
C2_AllAnagrams ==
    op = "get_all_anagrams" =>
        /\ outcome.kind = "return"
        /\ outcome.value = {w \in Range(corpus) : GroupSize(corpus, w) >= 2}

(* ------------------------------- C3 ----------------------------------- *)

\* the largest group size of c (0 for the empty corpus)
MaxGroupSize(c) ==
    IF c = <<>> THEN 0
    ELSE CHOOSE n \in 1..Len(c) :
            /\ \E w \in Range(c) : GroupSize(c, w) = n
            /\ \A w \in Range(c) : GroupSize(c, w) <= n

\* the smallest member of each group of maximal size, if that size is >= 2
C3_Representatives(c) ==
    IF MaxGroupSize(c) < 2 THEN {}
    ELSE {w \in Range(c) :
            /\ GroupSize(c, w) = MaxGroupSize(c)
            /\ \A v \in Range(c) : SortedChars(v) = SortedChars(w) => StrLE(w, v)}

\* C3: get_most_anagrams returns, in ascending order, the smallest member of
\* each group of the maximal size m >= 2, and the empty sequence if no group
\* has two members.
C3_MostAnagrams ==
    op = "get_most_anagrams" =>
        /\ outcome.kind = "return"
        /\ Range(outcome.value) = C3_Representatives(corpus)
        /\ Len(outcome.value) = Cardinality(C3_Representatives(corpus))
        /\ \A i \in 1..(Len(outcome.value) - 1) :
                StrLE(outcome.value[i], outcome.value[i + 1])

(* ------------------------------- C4 ----------------------------------- *)

\* C4: every public operation ends with a returned value, never with an
\* exception; on the empty corpus get_all_anagrams returns the empty set and
\* get_most_anagrams the empty sequence.
C4_Total ==
    /\ outcome.kind = "return"
    /\ (corpus = <<>> /\ op = "get_all_anagrams") => outcome.value = {}
    /\ (corpus = <<>> /\ op = "get_most_anagrams") => outcome.value = <<>>

(* ------------------------------- C5 ----------------------------------- *)

\* the mapping m partitions the list c, entries counted with multiplicity
Partitions(m, c) ==
    /\ GroupWords(m) = Range(c)
    /\ \A w \in Range(c) : Stored(m, w) = Occurrences(c, w)
    /\ \A i, j \in 1..Len(m) :
            i # j => /\ m[i].key # m[j].key
                     /\ Range(m[i].words) \cap Range(m[j].words) = {}

\* C5: the mapping returned by get_lookup_dict (and stored at construction)
\* is a partition of the corpus: every entry, with its multiplicity, is in
\* exactly one group, and no group holds a word that is not in the corpus.
C5_Partition ==
    /\ Partitions(anagram_lookup, all_words)
    /\ Returned("get_lookup_dict") => Partitions(outcome.value, corpus)

C5_Witness ==
    /\ Returned("get_lookup_dict")
    /\ Len(corpus) = 2
    /\ Len(outcome.value) = 1
    /\ corpus[1] # corpus[2]

(* ------------------------------- C6 ----------------------------------- *)

\* same group iff same sorted characters; each group in ascending order
Grouped(m, c) ==
    /\ \A i, j \in 1..Len(c) :
            SameGroup(m, c[i], c[j]) <=> SortedChars(c[i]) = SortedChars(c[j])
    /\ \A g \in 1..Len(m) : \A k \in 1..(Len(m[g].words) - 1) :
            StrLE(m[g].words[k], m[g].words[k + 1])

\* C6: in the mapping returned by get_lookup_dict two corpus words are in
\* the same group iff their sorted characters are identical, and each group
\* lists its words in ascending lexicographic order.
C6_CanonicalKey == Returned("get_lookup_dict") => Grouped(outcome.value, corpus)

\* the corpus lists two different anagrams, the larger one first
C6_Witness ==
    /\ Returned("get_lookup_dict")
    /\ Len(corpus) = 2
    /\ corpus[1] # corpus[2]
    /\ StrLE(corpus[2], corpus[1])
    /\ SameGroup(outcome.value, corpus[1], corpus[2])

(* ------------------------------- C7 ----------------------------------- *)

QueryOps == {"is_valid_anagram_pair", "get_all_anagrams", "get_most_anagrams"}

\* C7: the grouping is computed once, at construction; no call of
\* get_all_anagrams, get_most_anagrams or is_valid_anagram_pair computes it
\* again.
C7_BuiltOnce ==
    /\ op = "__init__" => built = 1
    /\ op \in QueryOps => built = 0

C7_Witness ==
    /\ op = "get_all_anagrams"
    /\ built = 0
    /\ Len(corpus) = 2

(* ------------------------------- C8 ----------------------------------- *)

\* C8: get_lookup_dict derives each key from the lower-case form of the
\* word, so entries whose lower-case forms are anagrams share a group, and
\* no group stores a word that differs from its lower-case form.
C8_LowercaseKeys ==
    Returned("get_lookup_dict") =>
        /\ \A i, j \in 1..Len(corpus) :
                SortedChars(Lower(corpus[i])) = SortedChars(Lower(corpus[j]))
                    => SameGroup(outcome.value, corpus[i], corpus[j])
        /\ \A g \in 1..Len(outcome.value) :
                /\ \A w \in Range(outcome.value[g].words) :
                        outcome.value[g].key = SortedChars(Lower(w))
                /\ \A w \in Range(outcome.value[g].words) : w = Lower(w)

(* ------------------------------- C9 ----------------------------------- *)

\* C9: whatever calls were made, the corpus accessor gives the list passed
\* to the constructor, in its original order, and anagram_lookup is the
\* mapping built at construction.
C9_Frame ==
    /\ corpus = all_words
    /\ anagram_lookup = get_lookup_dict(all_words)

\* after a call of get_lookup_dict on a corpus that is not in sorted order
C9_Witness ==
    /\ op = "get_lookup_dict"
    /\ Len(all_words) = 2
    /\ all_words[1] # all_words[2]
    /\ StrLE(all_words[2], all_words[1])

(* ------------------------------- C10 ---------------------------------- *)

C10_Swapped == is_valid_anagram_pair(corpus, <<args.pair[2], args.pair[1]>>, args.letters)

\* C10: is_valid_anagram_pair((a, b), letters) and
\* is_valid_anagram_pair((b, a), letters) have the same outcome, the same
\* boolean, neither ending in an exception.
C10_Symmetric ==
    op = "is_valid_anagram_pair" =>
        /\ outcome.kind = "return"
        /\ C10_Swapped.kind = "return"
        /\ outcome.value = C10_Swapped.value

=============================================================================
